---- MODULE Spec2Model ----
(***************************************************************************)
(* Client-side authentication session of ai-image-gallery: the Pinia auth  *)
(* store (stores/auth.ts), the axios client with its 401 refresh           *)
(* interceptor (services/api.ts), the router's global guard (main.ts) and  *)
(* the page submit handlers that call the store.                           *)
(*                                                                         *)
(* Execution is a single-threaded event loop.  A task (a guard evaluation, *)
(* a page handler, the boot-time restoration) suspends only while it waits *)
(* for a network response; the code between two suspensions runs to        *)
(* completion.  A network response or a user gesture (a macrotask) is      *)
(* therefore taken only when no task has a continuation ready to run.      *)
(***************************************************************************)
EXTENDS Integers, Sequences, FiniteSets, TLC

MaxTasks == 2          \* guard evaluations / page handlers alive at once
MaxGestures == 2       \* user gestures (link clicks, form submits) per session
MaxGesturesAtLogin == 3  \* the same, for a session opened at /login

Tasks == 1..MaxTasks   \* task 0 is the boot-time restoration (authPromise)
Procs == 0..MaxTasks

----------------------------------------------------------------------------
(* Values *)

NoUser == "null"              \* user.value = null
NoData == "undefined"         \* an absent `data` member of the envelope
Users  == {"u1", "u2"}        \* identity records (UserOut)
NoText == ""                  \* an absent / empty string (falsy)

Truthy(v) == v \notin {NoUser, NoData, NoText}

\* URLs, as the sequence of their path segments
LoginUrl          == <<"auth", "login">>
SignupUrl         == <<"auth", "signup">>
LogoutUrl         == <<"auth", "logout">>
RefreshUrl        == <<"auth", "refresh">>
MeUrl             == <<"auth", "me">>
PasswordResetUrl  == <<"auth", "password-reset">>
UpdatePasswordUrl == <<"auth", "update-password">>
NoUrl             == <<>>

\* String.prototype.includes, on segment sequences
Includes(url, pat) ==
  \E i \in 0..(Len(url) - Len(pat)) :
    \A j \in 1..Len(pat) : url[i + j] = pat[j]

\* Backend / transport outcomes of one HTTP request.  status 0 is a
\* transport fault (no response object at all).
Details  == {NoText, "detail"}
Messages == {NoText, "message"}

Responses ==
  [status : {200}, data : Users \cup {NoData}, detail : {NoText}, message : {NoText}]
    \cup
  [status : {401, 500}, data : {NoData}, detail : Details, message : Messages]
    \cup
  [status : {0}, data : {NoData}, detail : {NoText}, message : Messages]

\* Texts of a failure are drawn only for the operations whose code reads them
\* (login, signup and the password operations build lastError from them); the
\* other operations get the one failure text axios always supplies.
PlainResponses ==
  {r \in Responses : r.status = 200 \/ (r.detail = NoText /\ r.message = "message")}

\* An AxiosError (or a plain Error when url = NoUrl)
NoErr == [url |-> NoUrl, status |-> -1, detail |-> NoText, message |-> NoText]
MkError(url, r) ==
  [url |-> url, status |-> r.status, detail |-> r.detail, message |-> r.message]
InvalidStructure ==
  [url |-> NoUrl, status |-> 0, detail |-> NoText, message |-> "invalid-structure"]

----------------------------------------------------------------------------
(* HTTP client: one outbound call and the response interceptor *)

NoCall ==
  [url |-> NoUrl, phase |-> "none", retry |-> FALSE,
   nRefresh |-> 0, refreshed |-> "no", nReplay |-> 0, nSignal |-> 0,
   data |-> NoData, err |-> NoErr, orig |-> NoErr]

NewCall(url) == [NoCall EXCEPT !.url = url, !.phase = "sent"]

InFlight(c) == c.phase \in {"sent", "refreshing", "replayed"}

\* Variant: the identity endpoint is excluded from the refresh path too
IsAuthEndpointWithMe(url) ==
  \/ Includes(url, LoginUrl)
  \/ Includes(url, SignupUrl)
  \/ Includes(url, LogoutUrl)
  \/ Includes(url, RefreshUrl)
  \/ Includes(url, MeUrl)

IsAuthEndpoint(url) ==
  \/ Includes(url, LoginUrl)
  \/ Includes(url, SignupUrl)
  \/ Includes(url, LogoutUrl)
  \/ Includes(url, RefreshUrl)

\* Variant: the per-request _retry flag is not consulted
ShouldRefreshAlways(c, r) == r.status = 401

ShouldRefresh(c, r) == r.status = 401 /\ ~c.retry

\* The response (or error) of the request itself, or of its replay, passes
\* through the interceptor.
ResponseInterceptor(c, r) ==
  IF r.status = 200
    THEN [c EXCEPT !.phase = "resolved", !.data = r.data]
  ELSE IF IsAuthEndpoint(c.url)
    THEN [c EXCEPT !.phase = "rejected", !.err = MkError(c.url, r)]
  ELSE IF ShouldRefresh(c, r)
    THEN [c EXCEPT !.retry = TRUE, !.phase = "refreshing", !.nRefresh = @ + 1,
                   !.orig = MkError(c.url, r)]
  ELSE [c EXCEPT !.phase = "rejected", !.err = MkError(c.url, r)]

\* Variant: the catch block rejects with the error of the original request
RefreshFailureOriginal(refreshError, originalError) == originalError

\* What the catch block around the refresh rejects with
RefreshFailure(refreshError, originalError) == refreshError

\* Variant: a failed refresh is rejected without dispatching auth:logout
RefreshSettledSilent(c, r) ==
  IF r.status = 200
    THEN [c EXCEPT !.refreshed = "ok", !.phase = "replayed", !.nReplay = @ + 1,
                   !.orig = NoErr]
  ELSE [c EXCEPT !.refreshed = "failed", !.phase = "rejected",
                 !.err = MkError(RefreshUrl, r)]

\* The POST /auth/refresh issued by the interceptor settles.  The refresh
\* request goes through the same interceptor (where it is an auth endpoint).
\* refreshed records how the refresh went.
RefreshSettled(c, r) ==
  LET inner == ResponseInterceptor(NewCall(RefreshUrl), r) IN
  IF inner.phase = "resolved"
    THEN [c EXCEPT !.refreshed = "ok", !.phase = "replayed", !.nReplay = @ + 1,
                   !.orig = NoErr]
  ELSE IF inner.phase = "rejected"
    THEN [c EXCEPT !.refreshed = "failed", !.phase = "rejected",
                   !.nSignal = @ + 1,
                   !.err = RefreshFailure(inner.err, c.orig)]
  ELSE [c EXCEPT !.nRefresh = @ + 1]

\* A settled call: its response and error objects now belong to the caller;
\* what remains is the request (url, _retry) and how it went.
Spent(c) == [c EXCEPT !.data = NoData, !.err = NoErr, !.orig = NoErr]

OnResponse(c, r) ==
  IF c.phase = "refreshing" THEN RefreshSettled(c, r) ELSE ResponseInterceptor(c, r)

----------------------------------------------------------------------------
(* ApiClient methods: what the awaited method call settles with once the   *)
(* underlying HTTP call c has settled.  sig counts the auth:logout events  *)
(* the method itself dispatches.                                           *)

Outcome(ok, val, err, sig) == [ok |-> ok, val |-> val, err |-> err, sig |-> sig]
NoOut == Outcome(TRUE, NoData, NoErr, 0)

\* login / signup: return response.data.data!
ApiLogin(c) ==
  IF c.phase = "resolved" THEN Outcome(TRUE, c.data, NoErr, 0)
  ELSE Outcome(FALSE, NoData, c.err, 0)

\* Variant: ApiClient.logout has no finally block dispatching auth:logout
ApiLogoutNoSignal(c) ==
  IF c.phase = "resolved" THEN Outcome(TRUE, NoData, NoErr, 0)
  ELSE Outcome(FALSE, NoData, c.err, 0)

\* logout: try { post } finally { dispatch auth:logout }
ApiLogout(c) ==
  IF c.phase = "resolved" THEN Outcome(TRUE, NoData, NoErr, 1)
  ELSE Outcome(FALSE, NoData, c.err, 1)

\* getCurrentUser: throws when the envelope carries no data
ApiGetCurrentUser(c) ==
  IF c.phase = "resolved"
    THEN IF ~Truthy(c.data) THEN Outcome(FALSE, NoData, InvalidStructure, 0)
         ELSE Outcome(TRUE, c.data, NoErr, 0)
  ELSE Outcome(FALSE, NoData, c.err, 0)

\* requestPasswordReset / updatePassword: return response.data
ApiPassword(c) ==
  IF c.phase = "resolved" THEN Outcome(TRUE, NoData, NoErr, 0)
  ELSE Outcome(FALSE, NoData, c.err, 0)

----------------------------------------------------------------------------
(* Session store (stores/auth.ts) *)

VARIABLES user, hasCredentials, isLoading, isInitialized, error

storeVars == <<user, hasCredentials, isLoading, isInitialized, error>>

NoError == "null"

Store ==
  [user |-> user, hasCredentials |-> hasCredentials, isLoading |-> isLoading,
   isInitialized |-> isInitialized, error |-> error]

isAuthenticated == hasCredentials \/ user # NoUser

\* Variant: the transport message is preferred to the server's detail
ErrorMsgMessageFirst(err, fallback) ==
  IF Truthy(err.message) THEN err.message
  ELSE IF Truthy(err.detail) THEN err.detail
  ELSE fallback

\* err.response?.data?.detail || err.message || fallback
ErrorMsg(err, fallback) ==
  IF Truthy(err.detail) THEN err.detail
  ELSE IF Truthy(err.message) THEN err.message
  ELSE fallback

\* Variant: the prologue clears the error but does not set isLoading
PrologueNoLoading(s) == [s EXCEPT !.error = NoError]

\* The synchronous prologue of login, signup, logout, fetchCurrentUser,
\* requestPasswordReset and updatePassword
Prologue(s) == [s EXCEPT !.isLoading = TRUE, !.error = NoError]

\* Each XSettled(s, o) is the store after the try/catch/finally of operation
\* X has run on the outcome o of its API call; XResult(o) is what the
\* operation's promise settles with.

\* Variant: login drops its result when another operation has finished in
\* the meantime (isLoading already reset)
LoginSettledUnlessOvertaken(s, o) ==
  IF o.ok /\ s.isLoading
    THEN [s EXCEPT !.user = o.val, !.hasCredentials = TRUE, !.isLoading = FALSE]
  ELSE IF o.ok THEN [s EXCEPT !.isLoading = FALSE]
  ELSE [s EXCEPT !.error = ErrorMsg(o.err, "Login failed"), !.isLoading = FALSE]

\* Variant: isLoading is reset in the try block instead of the finally block
LoginSettledNoFinally(s, o) ==
  IF o.ok THEN [s EXCEPT !.user = o.val, !.hasCredentials = TRUE, !.isLoading = FALSE]
  ELSE [s EXCEPT !.error = ErrorMsg(o.err, "Login failed")]

\* Variant: login stores the record but does not set hasCredentials
LoginSettledNoCredentials(s, o) ==
  IF o.ok THEN [s EXCEPT !.user = o.val, !.isLoading = FALSE]
  ELSE [s EXCEPT !.error = ErrorMsg(o.err, "Login failed"), !.isLoading = FALSE]

\* Variant: a failed login ends the session
LoginSettledClearsOnFailure(s, o) ==
  IF o.ok THEN [s EXCEPT !.user = o.val, !.hasCredentials = TRUE, !.isLoading = FALSE]
  ELSE [s EXCEPT !.user = NoUser, !.hasCredentials = FALSE,
                 !.error = ErrorMsg(o.err, "Login failed"), !.isLoading = FALSE]

LoginSettled(s, o) ==
  IF o.ok THEN [s EXCEPT !.user = o.val, !.hasCredentials = TRUE, !.isLoading = FALSE]
  ELSE [s EXCEPT !.error = ErrorMsg(o.err, "Login failed"), !.isLoading = FALSE]

\* Variant: a successful signup stores the record without the credentials flag
SignupSettledNoCredentials(s, o) ==
  IF o.ok THEN [s EXCEPT !.user = o.val, !.isLoading = FALSE]
  ELSE [s EXCEPT !.error = ErrorMsg(o.err, "Signup failed"), !.isLoading = FALSE]

SignupSettled(s, o) ==
  IF o.ok THEN [s EXCEPT !.user = o.val, !.hasCredentials = TRUE, !.isLoading = FALSE]
  ELSE [s EXCEPT !.error = ErrorMsg(o.err, "Signup failed"), !.isLoading = FALSE]

\* Variant: the catch branch of logout leaves the session as it was
LogoutSettledKeepOnFailure(s, o) ==
  IF o.ok THEN [s EXCEPT !.user = NoUser, !.hasCredentials = FALSE, !.isLoading = FALSE]
  ELSE [s EXCEPT !.isLoading = FALSE]

\* Variant: the catch branch of logout drops the credentials flag only
LogoutSettledKeepUserOnFailure(s, o) ==
  IF o.ok THEN [s EXCEPT !.user = NoUser, !.hasCredentials = FALSE, !.isLoading = FALSE]
  ELSE [s EXCEPT !.hasCredentials = FALSE, !.isLoading = FALSE]

LogoutSettled(s, o) ==
  IF o.ok THEN [s EXCEPT !.user = NoUser, !.hasCredentials = FALSE, !.isLoading = FALSE]
  ELSE [s EXCEPT !.user = NoUser, !.hasCredentials = FALSE, !.isLoading = FALSE]

\* auth:logout events dispatched by the store's logout itself (catch branch)
LogoutStoreSignals(o) == IF o.ok THEN 0 ELSE 1

\* Variant: a failed fetchCurrentUser clears hasCredentials but keeps user
FetchCurrentUserSettledKeepUser(s, o) ==
  IF o.ok
    THEN [s EXCEPT !.user = o.val, !.hasCredentials = TRUE,
                   !.isLoading = FALSE, !.isInitialized = TRUE]
  ELSE [s EXCEPT !.hasCredentials = FALSE,
                 !.isLoading = FALSE, !.isInitialized = TRUE]

\* Variant: isLoading is reset in the try block instead of the finally block
FetchCurrentUserSettledNoFinally(s, o) ==
  IF o.ok
    THEN [s EXCEPT !.user = o.val, !.hasCredentials = TRUE,
                   !.isLoading = FALSE, !.isInitialized = TRUE]
  ELSE [s EXCEPT !.user = NoUser, !.hasCredentials = FALSE,
                 !.isInitialized = TRUE]

\* Variant: a failed fetchCurrentUser clears user but keeps hasCredentials
FetchCurrentUserSettledKeepCredentials(s, o) ==
  IF o.ok
    THEN [s EXCEPT !.user = o.val, !.hasCredentials = TRUE,
                   !.isLoading = FALSE, !.isInitialized = TRUE]
  ELSE [s EXCEPT !.user = NoUser, !.isLoading = FALSE, !.isInitialized = TRUE]

FetchCurrentUserSettled(s, o) ==
  IF o.ok
    THEN [s EXCEPT !.user = o.val, !.hasCredentials = TRUE,
                   !.isLoading = FALSE, !.isInitialized = TRUE]
  ELSE [s EXCEPT !.user = NoUser, !.hasCredentials = FALSE,
                 !.isLoading = FALSE, !.isInitialized = TRUE]

\* Variant: isInitialized is set in the try block instead of the finally block
RestoreSettledNoFinally(s, o) ==
  IF o.ok
    THEN [s EXCEPT !.user = o.val, !.hasCredentials = TRUE, !.isInitialized = TRUE]
  ELSE [s EXCEPT !.user = NoUser, !.hasCredentials = FALSE]

RestoreSettled(s, o) ==
  IF o.ok
    THEN [s EXCEPT !.user = o.val, !.hasCredentials = TRUE, !.isInitialized = TRUE]
  ELSE [s EXCEPT !.user = NoUser, !.hasCredentials = FALSE, !.isInitialized = TRUE]

RequestPasswordResetSettled(s, o) ==
  IF o.ok THEN [s EXCEPT !.isLoading = FALSE]
  ELSE [s EXCEPT !.error = ErrorMsg(o.err, "Password reset failed"), !.isLoading = FALSE]

\* Variant: a failed updatePassword ends the session
UpdatePasswordSettledClears(s, o) ==
  IF o.ok THEN [s EXCEPT !.isLoading = FALSE]
  ELSE [s EXCEPT !.user = NoUser, !.hasCredentials = FALSE,
                 !.error = ErrorMsg(o.err, "Update password failed"),
                 !.isLoading = FALSE]

UpdatePasswordSettled(s, o) ==
  IF o.ok THEN [s EXCEPT !.isLoading = FALSE]
  ELSE [s EXCEPT !.error = ErrorMsg(o.err, "Update password failed"), !.isLoading = FALSE]

\* Variant: logout swallows the failure of its API call
RethrowsExceptLogout(op) ==
  op \in {"login", "signup", "requestPasswordReset", "updatePassword"}

\* Variant: every operation re-raises
RethrowsAll(op) == TRUE

\* Operations that re-raise the failure of their API call; the other two
\* (fetchCurrentUser, restoreAuthFromCookies) resolve with null instead.
Rethrows(op) == op \in {"login", "signup", "logout", "requestPasswordReset", "updatePassword"}

OpUrl(op) ==
  CASE op = "login"                  -> LoginUrl
    [] op = "signup"                 -> SignupUrl
    [] op = "logout"                 -> LogoutUrl
    [] op = "fetchCurrentUser"       -> MeUrl
    [] op = "restore"                -> MeUrl
    [] op = "requestPasswordReset"   -> PasswordResetUrl
    [] op = "updatePassword"         -> UpdatePasswordUrl

ApiSettle(op, c) ==
  CASE op \in {"login", "signup"}                          -> ApiLogin(c)
    [] op = "logout"                                       -> ApiLogout(c)
    [] op \in {"fetchCurrentUser", "restore"}              -> ApiGetCurrentUser(c)
    [] op \in {"requestPasswordReset", "updatePassword"}   -> ApiPassword(c)

StoreSettle(op, s, o) ==
  CASE op = "login"                  -> LoginSettled(s, o)
    [] op = "signup"                 -> SignupSettled(s, o)
    [] op = "logout"                 -> LogoutSettled(s, o)
    [] op = "fetchCurrentUser"       -> FetchCurrentUserSettled(s, o)
    [] op = "restore"                -> RestoreSettled(s, o)
    [] op = "requestPasswordReset"   -> RequestPasswordResetSettled(s, o)
    [] op = "updatePassword"         -> UpdatePasswordSettled(s, o)

\* What the store operation's own promise settles with
OpResult(op, o) ==
  IF o.ok THEN Outcome(TRUE, o.val, NoErr, 0)
  ELSE IF Rethrows(op) THEN Outcome(FALSE, NoData, o.err, 0)
  ELSE Outcome(TRUE, NoUser, NoErr, 0)

----------------------------------------------------------------------------
(* Routes (router/index.ts) and navigation targets *)

RouteNames == {"login", "signup", "forgot-password", "update-password", "home", "not-found"}

RoutePath(name) ==
  CASE name = "login"            -> "/login"
    [] name = "signup"           -> "/signup"
    [] name = "forgot-password"  -> "/forgot-password"
    [] name = "update-password"  -> "/update-password"
    [] name = "home"             -> "/"
    [] name = "not-found"        -> "/profile"

\* meta.requiresAuth (absent on the catch-all route, hence falsy)
RequiresAuth(name) == name \in {"update-password", "home"}

NoQuery == ""

Dest(name, query) == [name |-> name, path |-> RoutePath(name), query |-> query]

\* to.fullPath: the path followed by the query string, if any
FullPath(to) ==
  IF to.query = NoQuery THEN to.path ELSE to.path \o "?redirect=" \o to.query

NoDest == [name |-> "none", path |-> "", query |-> NoQuery]

\* Locations a navigation can be started for: every route, the login route
\* also with a redirect query, the home route also with a query string.
Destinations ==
  {Dest(n, NoQuery) : n \in RouteNames}
    \cup {Dest("login", q) : q \in {"/", "/update-password"}}
    \cup {Dest("home", "x")}

\* Variant: the redirect query is ignored, the target is always the home route
ResolvePathHome(path) == Dest("home", NoQuery)

\* router.resolve of { path }: the route matching the path part of the
\* string; a query string inside it is parsed off and dropped.
ResolvePath(path) ==
  IF \E d \in Destinations : d.name # "not-found" /\ FullPath(d) = path
    THEN LET d == CHOOSE d \in Destinations :
                    d.name # "not-found" /\ FullPath(d) = path
         IN Dest(d.name, NoQuery)
  ELSE [name |-> "not-found", path |-> path, query |-> NoQuery]

----------------------------------------------------------------------------
(* Navigation guard (main.ts, router.beforeEach) *)

Allow         == [act |-> "allow", to |-> NoDest]
Redirect(d)   == [act |-> "redirect", to |-> d]
Fetch         == [act |-> "fetch", to |-> NoDest]
NoDecision    == [act |-> "none", to |-> NoDest]

\* Variant: the redirect query carries to.path, dropping the query string
RedirectToLoginPathOnly(to) == Redirect(Dest("login", to.path))

RedirectToLogin(to) == Redirect(Dest("login", FullPath(to)))

\* Variant: rule 1 (login page while an identity is loaded) is missing
GuardRulesNoLoginRule(to, s) ==
  IF RequiresAuth(to.name)
    THEN IF ~s.hasCredentials THEN RedirectToLogin(to)
         ELSE IF Truthy(s.user) THEN Allow
         ELSE Fetch
  ELSE Allow

\* Variant: rule 3 (no credentials) is missing, the guard goes on to fetch
GuardRulesNoCredentialsRule(to, s) ==
  IF to.name = "login" /\ Truthy(s.user)
    THEN Redirect(Dest("home", NoQuery))
  ELSE IF RequiresAuth(to.name)
    THEN IF Truthy(s.user) THEN Allow ELSE Fetch
  ELSE Allow

\* Variant: rule 1 sends the login route to home without testing user
GuardRulesLoginAlwaysHome(to, s) ==
  IF to.name = "login"
    THEN Redirect(Dest("home", NoQuery))
  ELSE IF RequiresAuth(to.name)
    THEN IF ~s.hasCredentials THEN RedirectToLogin(to)
         ELSE IF Truthy(s.user) THEN Allow
         ELSE Fetch
  ELSE Allow

\* Rules 1-4 of the guard, evaluated once authPromise has resolved; "fetch"
\* stands for rule 5, which awaits fetchCurrentUser before it decides.
GuardRules(to, s) ==
  IF to.name = "login" /\ Truthy(s.user)
    THEN Redirect(Dest("home", NoQuery))
  ELSE IF RequiresAuth(to.name)
    THEN IF ~s.hasCredentials THEN RedirectToLogin(to)
         ELSE IF Truthy(s.user) THEN Allow
         ELSE Fetch
  ELSE Allow

\* Variant: rule 5 lets the navigation through whatever the fetch returned
GuardAfterFetchUnchecked(to, o) == Allow

\* Rule 5 after fetchCurrentUser has settled with outcome o
GuardAfterFetch(to, o) ==
  IF o.ok
    THEN IF Truthy(o.val) THEN Allow ELSE RedirectToLogin(to)
  ELSE RedirectToLogin(to)

\* Variant: the guard does not await authPromise
GuardNeverWaits(restorePc) == TRUE

\* Whether the guard may proceed past `await authPromise`
GuardMayProceed(restorePc) == restorePc = "done"

----------------------------------------------------------------------------
(* Tasks *)

VARIABLES tasks, currentRoute, pendingNav, mounted, gesturesLeft

navVars == <<currentRoute, pendingNav, mounted>>
vars == <<user, hasCredentials, isLoading, isInitialized, error,
          tasks, currentRoute, pendingNav, mounted, gesturesLeft>>

IdleTask ==
  [kind |-> "idle", op |-> "none", pc |-> "idle", call |-> NoCall,
   apiOk |-> TRUE, out |-> NoOut, to |-> NoDest, dec |-> NoDecision, sig |-> 0,
   superseded |-> FALSE]

GuardTask(d) == [IdleTask EXCEPT !.kind = "guard", !.pc = "awaitAuth", !.to = d]

OpTask(kind, op) ==
  [IdleTask EXCEPT !.kind = kind, !.op = op, !.pc = "net", !.call = NewCall(OpUrl(op))]

AuthResolved == GuardMayProceed(tasks[0].pc)

\* A task whose continuation is queued as a microtask
Ready(p) ==
  \/ tasks[p].pc \in {"settled", "decided"}
  \/ tasks[p].pc = "awaitAuth" /\ AuthResolved

Busy == \E p \in Procs : Ready(p)

\* A user gesture on the mounted application: an event-loop macrotask.  A
\* page's submit control is disabled by a flag local to the page instance
\* while that instance's handler runs; a page mounted anew (after navigating
\* away and back) has a fresh flag, so a handler can be started again while
\* an earlier run of it is still in flight.
Gesture ==
  /\ ~Busy
  /\ mounted
  /\ gesturesLeft > 0
  /\ gesturesLeft' = gesturesLeft - 1

\* The slot a new task is put in
FreeSlot(p) ==
  /\ p \in Tasks
  /\ tasks[p].pc = "idle"
  /\ \A q \in Tasks : q < p => tasks[q].pc # "idle"

SetStore(s) ==
  /\ user' = s.user
  /\ hasCredentials' = s.hasCredentials
  /\ isLoading' = s.isLoading
  /\ isInitialized' = s.isInitialized
  /\ error' = s.error

\* One run of the guard body for the navigation of task record t, from
\* `await authPromise` to its next() or to its `await fetchCurrentUser()`,
\* with the store being s: the task and the store afterwards.
GuardStep(t, s) ==
  LET d == GuardRules(t.to, s)
  IN IF d.act = "fetch"
       THEN [task  |-> [t EXCEPT !.op = "fetchCurrentUser", !.pc = "net",
                                 !.call = NewCall(OpUrl("fetchCurrentUser"))],
             store |-> Prologue(s)]
     ELSE [task |-> [t EXCEPT !.pc = "decided", !.dec = d], store |-> s]

\* router.push(d) issued by the code running as task p when the store is s:
\* p goes on as that navigation, which supersedes the pending one.  The
\* guard's `await authPromise` returns at once when the promise has resolved.
BeginNavigation(p, d, s) ==
  LET g == IF AuthResolved THEN GuardStep(GuardTask(d), s)
           ELSE [task |-> GuardTask(d), store |-> s]
  IN /\ tasks' = [tasks EXCEPT ![p] = g.task]
     /\ SetStore(g.store)
     /\ pendingNav' = p
     /\ UNCHANGED <<currentRoute, mounted>>

----------------------------------------------------------------------------
(* Initial state: main.ts has run to its end.  restoreAuthFromCookies has   *)
(* issued GET /auth/me, and the router's initial navigation (to whatever    *)
(* location the page was opened at) is waiting in the guard.                *)

Init ==
  /\ user = NoUser
  /\ hasCredentials = FALSE
  /\ isLoading = FALSE
  /\ isInitialized = FALSE
  /\ error = NoError
  /\ \E d \in Destinations :
       tasks = [p \in Procs |->
                  IF p = 0 THEN OpTask("restore", "restore")
                  ELSE IF p = 1 THEN GuardTask(d)
                  ELSE IdleTask]
  /\ currentRoute = NoDest
  /\ pendingNav = 1
  /\ mounted = FALSE
  /\ gesturesLeft = MaxGestures

\* The same, for a page opened at /login, with a longer session
InitAtLogin ==
  /\ user = NoUser
  /\ hasCredentials = FALSE
  /\ isLoading = FALSE
  /\ isInitialized = FALSE
  /\ error = NoError
  /\ tasks = [p \in Procs |->
                IF p = 0 THEN OpTask("restore", "restore")
                ELSE IF p = 1 THEN GuardTask(Dest("login", NoQuery))
                ELSE IdleTask]
  /\ currentRoute = NoDest
  /\ pendingNav = 1
  /\ mounted = FALSE
  /\ gesturesLeft = MaxGesturesAtLogin

----------------------------------------------------------------------------
(* Actions *)

\* Bookkeeping, not program state: an operation still awaiting its response
\* when a logout settles is marked as superseded by that logout.
Outlives(t, settledOp) ==
  IF settledOp = "logout" /\ t.pc = "net" THEN [t EXCEPT !.superseded = TRUE]
  ELSE t

\* A response (or transport fault) arrives for the request task p waits for:
\* the interceptor runs, and when the call settles so do the ApiClient method
\* and the store operation awaiting it.
Respond(p, r) ==
  /\ ~Busy
  /\ tasks[p].pc = "net"
  /\ LET t  == tasks[p]
         c2 == OnResponse(t.call, r)
     IN IF InFlight(c2)
          THEN /\ tasks' = [tasks EXCEPT ![p].call = c2]
               /\ UNCHANGED storeVars
        ELSE LET o == ApiSettle(t.op, c2)
                 n == c2.nSignal + o.sig
                        + (IF t.op = "logout" THEN LogoutStoreSignals(o) ELSE 0)
             IN /\ tasks' = [q \in Procs |->
                               IF q = p
                                 THEN [t EXCEPT !.call = Spent(c2),
                                                !.pc = "settled",
                                                !.apiOk = o.ok,
                                                !.out = OpResult(t.op, o),
                                                !.sig = n]
                               ELSE Outlives(tasks[q], t.op)]
                /\ SetStore(StoreSettle(t.op, Store, o))
  /\ UNCHANGED navVars
  /\ UNCHANGED gesturesLeft

\* authPromise resolves: the guards awaiting it may continue
RestoreDone ==
  /\ tasks[0].pc = "settled"
  /\ tasks' = [tasks EXCEPT ![0] = [IdleTask EXCEPT !.kind = "restore", !.pc = "done"]]
  /\ UNCHANGED <<storeVars, navVars>>
  /\ UNCHANGED gesturesLeft

\* The guard continues after `await authPromise` and applies its rules
GuardEvaluate(p) ==
  /\ tasks[p].kind = "guard"
  /\ tasks[p].pc = "awaitAuth"
  /\ AuthResolved
  /\ LET g == GuardStep(tasks[p], Store)
     IN /\ tasks' = [tasks EXCEPT ![p] = g.task]
        /\ SetStore(g.store)
  /\ UNCHANGED navVars
  /\ UNCHANGED gesturesLeft

\* The guard continues after `await authStore.fetchCurrentUser()`
GuardFetched(p) ==
  /\ tasks[p].kind = "guard"
  /\ tasks[p].pc = "settled"
  /\ LET o == tasks[p].out
     IN /\ tasks' = [tasks EXCEPT ![p] =
                          [GuardTask(tasks[p].to) EXCEPT
                             !.op = "fetchCurrentUser", !.pc = "decided",
                             !.dec = GuardAfterFetch(tasks[p].to, o)]]
        /\ IF o.ok THEN UNCHANGED storeVars
           ELSE SetStore([Store EXCEPT !.user = NoUser])
  /\ UNCHANGED navVars
  /\ UNCHANGED gesturesLeft

\* The router acts on the guard's next(): a superseded navigation is dropped,
\* an allowed one becomes the current route, a redirect starts a navigation
\* to its target.
RouterFinalize(p) ==
  /\ tasks[p].kind = "guard"
  /\ tasks[p].pc = "decided"
  /\ IF pendingNav # p
       THEN /\ tasks' = [tasks EXCEPT ![p] = IdleTask]
            /\ UNCHANGED <<navVars, storeVars>>
     ELSE IF tasks[p].dec.act = "allow"
       THEN /\ tasks' = [tasks EXCEPT ![p] = IdleTask]
            /\ currentRoute' = tasks[p].to
            /\ pendingNav' = 0
            /\ mounted' = TRUE
            /\ UNCHANGED storeVars
     ELSE BeginNavigation(p, tasks[p].dec.to, Store)
  /\ UNCHANGED gesturesLeft

\* The user follows a link or enters a location of the mounted application
Navigate(p, d) ==
  /\ Gesture
  /\ FreeSlot(p)
  /\ BeginNavigation(p, d, Store)

----------------------------------------------------------------------------
(* Page submit handlers *)

Emails    == {"", "a@b.com"}
Passwords == {"", "abc", "abcdef", "abcdeg"}

MinPasswordLength == 6

\* Start store operation op on behalf of handler kind in slot p
StartOp(p, kind, op) ==
  /\ tasks' = [tasks EXCEPT ![p] = OpTask(kind, op)]
  /\ SetStore(Prologue(Store))

\* A handler that returns at a validation check leaves only its message
ValidationError(msg) ==
  /\ SetStore([Store EXCEPT !.error = msg])
  /\ UNCHANGED tasks

\* The message of the validation check a handler returns at, NoError when
\* the input passes them all
LoginInputError(email, password) ==
  IF email = "" \/ password = "" THEN "Please fill in all fields" ELSE NoError

SignupInputError(email, password) ==
  IF email = "" \/ password = "" THEN "Please fill in all fields" ELSE NoError

ForgotInputError(email) ==
  IF email = "" THEN "Please enter your email" ELSE NoError

\* Variant: the minimum length of the new password is not checked
UpdateInputErrorNoLength(newPassword, confirmPassword) ==
  IF newPassword = "" \/ confirmPassword = "" THEN "Please fill in all fields"
  ELSE IF newPassword # confirmPassword THEN "Passwords do not match"
  ELSE NoError

UpdateInputError(newPassword, confirmPassword) ==
  IF newPassword = "" \/ confirmPassword = "" THEN "Please fill in all fields"
  ELSE IF newPassword # confirmPassword THEN "Passwords do not match"
  ELSE IF Len(newPassword) < MinPasswordLength
    THEN "Password must be at least 6 characters"
  ELSE NoError

\* LoginPage.vue handleLogin, up to `await authStore.login`
SubmitLogin(p, email, password) ==
  /\ Gesture /\ currentRoute.name = "login"
  /\ IF LoginInputError(email, password) # NoError
       THEN ValidationError(LoginInputError(email, password))
     ELSE FreeSlot(p) /\ StartOp(p, "handleLogin", "login")
  /\ UNCHANGED navVars

\* SignupPage.vue handleSignup, up to `await authStore.signup`
SubmitSignup(p, email, password) ==
  /\ Gesture /\ currentRoute.name = "signup"
  /\ IF SignupInputError(email, password) # NoError
       THEN ValidationError(SignupInputError(email, password))
     ELSE FreeSlot(p) /\ StartOp(p, "handleSignup", "signup")
  /\ UNCHANGED navVars

\* HomePage.vue handleLogout, up to `await authStore.logout`
ClickLogout(p) ==
  /\ Gesture /\ currentRoute.name = "home"
  /\ FreeSlot(p)
  /\ StartOp(p, "handleLogout", "logout")
  /\ UNCHANGED navVars

\* ForgotPasswordPage.vue handleSubmit, up to `await requestPasswordReset`
SubmitForgot(p, email) ==
  /\ Gesture /\ currentRoute.name = "forgot-password"
  /\ IF ForgotInputError(email) # NoError
       THEN ValidationError(ForgotInputError(email))
     ELSE FreeSlot(p) /\ StartOp(p, "handleForgot", "requestPasswordReset")
  /\ UNCHANGED navVars

\* UpdatePasswordPage.vue handleSubmit, up to `await updatePassword`
SubmitUpdate(p, newPassword, confirmPassword) ==
  /\ Gesture /\ currentRoute.name = "update-password"
  /\ IF UpdateInputError(newPassword, confirmPassword) # NoError
       THEN ValidationError(UpdateInputError(newPassword, confirmPassword))
     ELSE FreeSlot(p) /\ StartOp(p, "handleUpdate", "updatePassword")
  /\ UNCHANGED navVars

\* The handler returns with the store being s
EndTask(p, s) ==
  /\ tasks' = [tasks EXCEPT ![p] = IdleTask]
  /\ SetStore(s)
  /\ UNCHANGED navVars

\* The handler arms setTimeout(() => router.push(d)) and returns
ArmTimer(p, d, s) ==
  /\ tasks' = [tasks EXCEPT ![p] =
                 [IdleTask EXCEPT !.kind = tasks[p].kind, !.pc = "timer", !.to = d]]
  /\ SetStore(s)
  /\ UNCHANGED navVars

\* handleLogin after the login promise settled
LoginContinue(p) ==
  /\ tasks[p].kind = "handleLogin" /\ tasks[p].pc = "settled"
  /\ IF tasks[p].out.ok
       THEN BeginNavigation(p, ResolvePath(IF Truthy(currentRoute.query)
                                             THEN currentRoute.query ELSE "/"),
                            Store)
     ELSE EndTask(p, Store)
  /\ UNCHANGED gesturesLeft

\* handleSignup after the signup promise settled; its finally block writes
\* authStore.isLoading
SignupContinue(p) ==
  /\ tasks[p].kind = "handleSignup" /\ tasks[p].pc = "settled"
  /\ IF tasks[p].out.ok
       THEN ArmTimer(p, Dest("login", NoQuery), [Store EXCEPT !.isLoading = FALSE])
     ELSE EndTask(p, [Store EXCEPT !.isLoading = FALSE])
  /\ UNCHANGED gesturesLeft

\* HomePage handleLogout after the logout promise settled; its catch block
\* writes authStore.user
LogoutContinue(p) ==
  /\ tasks[p].kind = "handleLogout" /\ tasks[p].pc = "settled"
  /\ IF tasks[p].out.ok
       THEN BeginNavigation(p, Dest("login", NoQuery), Store)
     ELSE BeginNavigation(p, Dest("login", NoQuery), [Store EXCEPT !.user = NoUser])
  /\ UNCHANGED gesturesLeft

\* ForgotPasswordPage handleSubmit after requestPasswordReset settled
ForgotContinue(p) ==
  /\ tasks[p].kind = "handleForgot" /\ tasks[p].pc = "settled"
  /\ IF tasks[p].out.ok
       THEN ArmTimer(p, Dest("login", NoQuery), Store)
     ELSE EndTask(p, Store)
  /\ UNCHANGED gesturesLeft

\* UpdatePasswordPage handleSubmit after updatePassword settled
UpdateContinue(p) ==
  /\ tasks[p].kind = "handleUpdate" /\ tasks[p].pc = "settled"
  /\ IF tasks[p].out.ok
       THEN ArmTimer(p, Dest("home", NoQuery), Store)
     ELSE EndTask(p, Store)
  /\ UNCHANGED gesturesLeft

\* A setTimeout callback of a handler runs: router.push(target)
TimerFire(p) ==
  /\ ~Busy
  /\ tasks[p].pc = "timer"
  /\ BeginNavigation(p, tasks[p].to, Store)
  /\ UNCHANGED gesturesLeft

ResponsesFor(op) ==
  IF op \in {"login", "signup", "requestPasswordReset", "updatePassword"}
    THEN Responses
  ELSE PlainResponses

Next ==
  \/ \E p \in Procs : \E r \in ResponsesFor(tasks[p].op) : Respond(p, r)
  \/ RestoreDone
  \/ \E p \in Tasks : GuardEvaluate(p)
  \/ \E p \in Tasks : GuardFetched(p)
  \/ \E p \in Tasks : RouterFinalize(p)
  \/ \E p \in Tasks, d \in Destinations : Navigate(p, d)
  \/ \E p \in Tasks, e \in Emails, w \in Passwords : SubmitLogin(p, e, w)
  \/ \E p \in Tasks, e \in Emails, w \in Passwords : SubmitSignup(p, e, w)
  \/ \E p \in Tasks : ClickLogout(p)
  \/ \E p \in Tasks, e \in Emails : SubmitForgot(p, e)
  \/ \E p \in Tasks, w \in Passwords, c \in Passwords : SubmitUpdate(p, w, c)
  \/ \E p \in Tasks : LoginContinue(p)
  \/ \E p \in Tasks : SignupContinue(p)
  \/ \E p \in Tasks : LogoutContinue(p)
  \/ \E p \in Tasks : ForgotContinue(p)
  \/ \E p \in Tasks : UpdateContinue(p)
  \/ \E p \in Tasks : TimerFire(p)

Spec == Init /\ [][Next]_vars

SpecAtLogin == InitAtLogin /\ [][Next]_vars

\* The event loop runs every queued continuation, every request is answered
\* or fails in the transport, and the user goes on until the session's
\* gestures are used up: the application does not stop while a step remains.
FairSpec == Init /\ [][Next]_vars /\ WF_vars(Next)

----------------------------------------------------------------------------
(* Properties *)

Call(p) == tasks[p].call

GuardDecided(p) == tasks[p].kind = "guard" /\ tasks[p].pc = "decided"

Settled(p) == tasks[p].pc = "settled"

\* At most one task has a continuation ready, so the store seen in a state
\* where a task has just settled or decided is the store of that moment.
OneReadyTask == \A p, q \in Procs : Ready(p) /\ Ready(q) => p = q

\* C1: whenever the guard allows a navigation to a destination that requires
\* authentication, hasCredentials is true and an identity record is loaded at
\* the moment of that decision.
GuardAllowsOnlyAuthenticated ==
  \A p \in Tasks :
    (GuardDecided(p) /\ tasks[p].dec.act = "allow" /\ RequiresAuth(tasks[p].to.name))
      => hasCredentials /\ Truthy(user)

GuardAllowedAfterFetch ==
  \E p \in Tasks :
    /\ GuardDecided(p) /\ tasks[p].dec.act = "allow"
    /\ RequiresAuth(tasks[p].to.name)
    /\ tasks[p].op = "fetchCurrentUser"
    /\ gesturesLeft < MaxGestures

\* C2: every guard decision, allow or redirect, the one of the first
\* navigation included, is made with isInitialized true, i.e. after the
\* restoration attempt has completed.
NoDecisionBeforeRestore ==
  \A p \in Tasks : GuardDecided(p) => isInitialized /\ tasks[0].pc = "done"

FirstNavigationDecided ==
  \E p \in Tasks : GuardDecided(p) /\ ~mounted /\ gesturesLeft = MaxGestures /\ isInitialized

\* C3: isInitialized is false exactly until the restoration attempt has
\* completed (with success or failure), and once true it never becomes false.
RestoreCompleted == tasks[0].pc \in {"settled", "done"}

InitializedOnceByRestore ==
  /\ [](isInitialized <=> RestoreCompleted)
  /\ [][isInitialized => isInitialized']_vars

InitializedAfterFailedRestore ==
  /\ tasks[0].pc = "settled" /\ ~tasks[0].apiOk /\ isInitialized

\* C4: restoreAuthFromCookies never rejects; when its identity fetch
\* succeeded it ends with user set and hasCredentials true, and when the
\* fetch failed in any way it ends with user null and hasCredentials false.
RestoreNeverRaises ==
  tasks[0].pc = "settled" =>
    /\ tasks[0].out.ok
    /\ tasks[0].apiOk =>
         Truthy(user) /\ user = tasks[0].out.val /\ hasCredentials
    /\ ~tasks[0].apiOk =>
         user = NoUser /\ tasks[0].out.val = NoUser /\ ~hasCredentials

RestoreFailedAfterRefresh ==
  /\ tasks[0].pc = "settled" /\ ~tasks[0].apiOk
  /\ tasks[0].call.nRefresh = 1
  /\ user = NoUser /\ ~hasCredentials

\* C5: when a logout() call settles, resolved or rejected, user is null and
\* hasCredentials is false.
LogoutAlwaysClears ==
  \A p \in Tasks :
    (Settled(p) /\ tasks[p].op = "logout") => user = NoUser /\ ~hasCredentials

LogoutRejected ==
  \E p \in Tasks : Settled(p) /\ tasks[p].op = "logout" /\ ~tasks[p].out.ok

\* C6: a guard evaluation for an auth-required destination made while
\* hasCredentials is false ends in a redirect to the login route whose
\* redirect query is the destination's full path, and starts no identity
\* fetch (a guard starts fetchCurrentUser only with hasCredentials true).
NoCredentialsRedirectsToLogin ==
  /\ [](\A p \in Tasks :
          (GuardDecided(p) /\ RequiresAuth(tasks[p].to.name) /\ ~hasCredentials)
            => /\ tasks[p].dec.act = "redirect"
               /\ tasks[p].dec.to.name = "login"
               /\ tasks[p].dec.to.query = FullPath(tasks[p].to))
  /\ [][\A p \in Tasks :
          (/\ tasks'[p].kind = "guard" /\ tasks'[p].pc = "net"
           /\ tasks[p].pc # "net")
            => hasCredentials /\ hasCredentials']_vars

RedirectedWithQueryString ==
  \E p \in Tasks :
    /\ GuardDecided(p) /\ ~hasCredentials
    /\ tasks[p].op = "none"
    /\ tasks[p].to = Dest("home", "x")
    /\ tasks[p].dec = Redirect(Dest("login", "/?redirect=x"))

\* C7: a guard evaluation whose destination is the login route while an
\* identity record is loaded ends in a redirect to the home route; no other
\* rule decides that navigation.
LoginWhileLoggedInGoesHome ==
  \A p \in Tasks :
    (GuardDecided(p) /\ tasks[p].to.name = "login" /\ Truthy(user))
      => /\ tasks[p].dec = Redirect(Dest("home", NoQuery))
         /\ tasks[p].op = "none"

LoginRedirectedHome ==
  \E p \in Tasks :
    /\ GuardDecided(p) /\ tasks[p].to.name = "login" /\ Truthy(user)
    /\ tasks[p].dec.act = "redirect"

\* C8: one outbound call refreshes only after a 401 on an endpoint other
\* than login, signup, logout and refresh, and only when it has not been
\* retried; it causes at most one refresh and at most one replay, and a
\* replay settles the call whatever it returns, without another refresh.
AuthUrls == {LoginUrl, SignupUrl, LogoutUrl, RefreshUrl}

AtMostOneRefreshAndReplay ==
  /\ [](\A p \in Procs :
          /\ Call(p).nRefresh <= 1
          /\ Call(p).nReplay <= Call(p).nRefresh
          /\ Call(p).nRefresh = 1 => Call(p).retry /\ Call(p).url \notin AuthUrls)
  /\ [][\A p \in Procs :
          /\ Call(p)'.nRefresh > Call(p).nRefresh
               => /\ Call(p).phase = "sent" /\ ~Call(p).retry
                  /\ Call(p)'.orig.status = 401
                  /\ Call(p)'.orig.url = Call(p).url
          /\ (Call(p).phase = "replayed" /\ Call(p)' # Call(p))
               => /\ Call(p)'.phase \in {"resolved", "rejected"}
                  /\ Call(p)'.nRefresh = Call(p).nRefresh
                  /\ Call(p)'.nSignal = Call(p).nSignal]_vars

ReplayFailed ==
  \E p \in Procs :
    Settled(p) /\ Call(p).nReplay = 1 /\ Call(p).phase = "rejected"

\* C9: after one 401, a refresh and a replay that both succeed, the caller
\* gets the replay's success; when the refresh fails, auth:logout is
\* dispatched exactly once for that call, which is rejected without a replay
\* and without another refresh.
PasswordOps == {"requestPasswordReset", "updatePassword"}

RefreshThenReplayOrSignalOnce ==
  \A p \in Procs :
    /\ Call(p).nSignal <= 1
    /\ InFlight(Call(p)) => Call(p).nSignal = 0
    /\ Call(p).refreshed = "no" => Call(p).nReplay = 0 /\ Call(p).nSignal = 0
    /\ Call(p).refreshed = "ok" => Call(p).nReplay = 1 /\ Call(p).nSignal = 0
    /\ Call(p).refreshed = "failed" =>
         /\ Call(p).phase = "rejected"
         /\ Call(p).nReplay = 0 /\ Call(p).nRefresh = 1 /\ Call(p).nSignal = 1
    /\ Settled(p) =>
         /\ (Call(p).nReplay = 1 /\ Call(p).phase = "resolved")
              => /\ tasks[p].sig = 0
                 /\ tasks[p].op \in PasswordOps => tasks[p].out.ok
                 /\ tasks[p].apiOk => tasks[p].out.ok
                 /\ (tasks[p].apiOk /\ tasks[p].op \in {"restore", "fetchCurrentUser"})
                      => Truthy(user) /\ user = tasks[p].out.val
         /\ (Call(p).nRefresh = 1 /\ Call(p).nReplay = 0)
              => /\ Call(p).phase = "rejected"
                 /\ Call(p).nSignal = 1
                 /\ tasks[p].sig = 1
                 /\ ~tasks[p].apiOk
         /\ Call(p).nSignal = 1 => Call(p).nReplay = 0 /\ Call(p).nRefresh = 1

RefreshFailedSignalled ==
  \E p \in Procs :
    Settled(p) /\ Call(p).refreshed = "failed" /\ tasks[p].sig = 1

\* C10 (as claimed): when the refresh triggered by a 401 fails, the caller is
\* rejected with the failure of the original request (its 401).
RefreshFailureDeliversOriginal ==
  \A p \in Tasks :
    (Settled(p) /\ Call(p).refreshed = "failed" /\ ~tasks[p].out.ok)
      => tasks[p].out.err.url = Call(p).url /\ tasks[p].out.err.status = 401

\* C10 (amended): when the refresh triggered by a 401 fails, the caller is
\* rejected with the failure of the refresh call, not the original 401.
RefreshFailureDeliversRefreshError ==
  \A p \in Tasks :
    (Settled(p) /\ Call(p).refreshed = "failed" /\ ~tasks[p].out.ok)
      => tasks[p].out.err.url = RefreshUrl /\ tasks[p].out.err.url # Call(p).url

RefreshFailureDelivered ==
  \E p \in Tasks :
    /\ Settled(p) /\ Call(p).refreshed = "failed" /\ ~tasks[p].out.ok
    /\ tasks[p].op \in PasswordOps

\* C11: on a fresh load without a session (the identity fetch, and the
\* refresh it may trigger, are rejected) restoration resolves, leaving user
\* null and hasCredentials false, and the first navigation, to /, is decided
\* at once as a redirect to the login route with redirect query "/".
FirstNavigation ==
  /\ ~mounted /\ gesturesLeft = MaxGestures
  /\ tasks[1].kind = "guard" /\ tasks[1].to = Dest("home", NoQuery)

NoSession == user = NoUser /\ ~hasCredentials

FreshLoadRedirectsToLogin ==
  /\ []((tasks[0].pc = "settled" /\ ~tasks[0].apiOk)
          => tasks[0].out.ok /\ NoSession)
  /\ []((FirstNavigation /\ NoSession /\ tasks[1].pc = "decided")
          => tasks[1].dec = Redirect(Dest("login", "/")))
  /\ [][(/\ FirstNavigation /\ NoSession
          /\ tasks[0].pc \in {"settled", "done"}
          /\ tasks[1].pc = "awaitAuth")
           => /\ NoSession'
              /\ \/ tasks'[1].pc = "awaitAuth" /\ tasks'[0].pc = "done"
                 \/ tasks'[1].pc = "decided"]_vars

FreshLoadRedirected ==
  /\ FirstNavigation /\ NoSession
  /\ tasks[1].pc = "decided"
  /\ tasks[1].dec = Redirect(Dest("login", "/"))

\* C12: when login() resolves with the identity record the backend returned,
\* user is that record and hasCredentials is true; the navigation to / that
\* handleLogin then starts is allowed by the guard without a network call.
LoginReturnedUser(p) ==
  /\ Settled(p) /\ tasks[p].op = "login"
  /\ tasks[p].out.ok /\ tasks[p].out.val \in Users

LoginThenHomeAllowed ==
  /\ [](\A p \in Tasks :
          LoginReturnedUser(p) => user = tasks[p].out.val /\ hasCredentials)
  /\ [][\A p \in Tasks :
          (/\ LoginReturnedUser(p)
           /\ currentRoute.query \in {NoQuery, "/"})
            => /\ tasks'[p].kind = "guard" /\ tasks'[p].pc = "decided"
               /\ tasks'[p].to = Dest("home", NoQuery)
               /\ tasks'[p].dec = Allow
               /\ tasks'[p].call = NoCall
               /\ user' = user /\ hasCredentials']_vars

LoginResolvedWithUser ==
  \E p \in Tasks :
    /\ LoginReturnedUser(p) /\ currentRoute.query = "/"
    /\ user = tasks[p].out.val /\ hasCredentials

\* C13: a guard evaluation for an auth-required destination made with
\* hasCredentials true and no identity loaded calls fetchCurrentUser, once;
\* when the fetch succeeds the navigation is allowed; when it fails user is
\* null, hasCredentials is false and the navigation is redirected to login
\* with the requested location as redirect query.
GuardFetching(p) == tasks[p].kind = "guard" /\ tasks[p].op = "fetchCurrentUser"

GuardFetchesOnceThenDecides ==
  /\ [](\A p \in Tasks :
          /\ (GuardDecided(p) /\ RequiresAuth(tasks[p].to.name)
                 /\ hasCredentials /\ ~Truthy(user))
               => GuardFetching(p)
          /\ (GuardDecided(p) /\ GuardFetching(p))
               => \/ tasks[p].dec = Allow /\ Truthy(user) /\ hasCredentials
                  \/ /\ tasks[p].dec = Redirect(Dest("login", FullPath(tasks[p].to)))
                     /\ user = NoUser /\ ~hasCredentials)
  /\ [][\A p \in Tasks :
          /\ (tasks'[p].kind = "guard" /\ tasks'[p].pc = "net" /\ tasks[p].pc # "net")
               => /\ RequiresAuth(tasks'[p].to.name)
                  /\ hasCredentials' /\ ~Truthy(user')
                  /\ tasks'[p].call = NewCall(MeUrl)
                  /\ ~GuardFetching(p)
          /\ (GuardFetching(p) /\ Settled(p))
               => /\ tasks'[p].pc = "decided" /\ tasks'[p].to = tasks[p].to
                  /\ tasks[p].apiOk => tasks'[p].dec = Allow
                  /\ ~tasks[p].apiOk =>
                       /\ tasks'[p].dec.act = "redirect"
                       /\ user' = NoUser /\ ~hasCredentials'
          /\ (GuardFetching(p) /\ tasks[p].pc = "decided")
               => tasks'[p].pc # "net"]_vars

GuardRedirectedAfterFailedFetch ==
  \E p \in Tasks :
    /\ GuardDecided(p) /\ GuardFetching(p)
    /\ tasks[p].to = Dest("home", "x")
    /\ tasks[p].dec = Redirect(Dest("login", "/?redirect=x"))
    /\ user = NoUser /\ ~hasCredentials

\* C14: when the remote logout call fails, logout() rejects with that
\* failure (the error of the POST /auth/logout request), and at the moment
\* the caller observes the rejection user is null and hasCredentials false.
LogoutFailed(p) == Settled(p) /\ tasks[p].op = "logout" /\ ~tasks[p].apiOk

LogoutRethrowsAfterClearing ==
  \A p \in Tasks :
    LogoutFailed(p)
      => /\ ~tasks[p].out.ok
         /\ tasks[p].out.err.url = LogoutUrl
         /\ tasks[p].out.err.status \in {0, 401, 500}
         /\ user = NoUser /\ ~hasCredentials

LogoutFailedByTransport ==
  \E p \in Tasks :
    /\ LogoutFailed(p) /\ tasks[p].out.err.status = 0
    /\ user = NoUser /\ ~hasCredentials

\* C15: every logout() call has dispatched auth:logout at least once by the
\* time it settles, when the remote call succeeded and when it failed.
LogoutAlwaysSignals ==
  \A p \in Tasks :
    (Settled(p) /\ tasks[p].op = "logout")
      => /\ tasks[p].apiOk => tasks[p].out.ok /\ tasks[p].sig >= 1
         /\ ~tasks[p].apiOk => ~tasks[p].out.ok /\ tasks[p].sig >= 1

LogoutResolvedSignalled ==
  \E p \in Tasks :
    /\ Settled(p) /\ tasks[p].op = "logout"
    /\ tasks[p].out.ok /\ tasks[p].sig = 1

\* C16: when login or signup fails, error (lastError) is the server's detail
\* message if there is one, else the error's own message if there is one,
\* else "Login failed" / "Signup failed"; and the operation rejects with the
\* failure of its request.
EntryFailed(p) ==
  Settled(p) /\ tasks[p].op \in {"login", "signup"} /\ ~tasks[p].apiOk

EntryFailureSetsLastError ==
  \A p \in Tasks :
    EntryFailed(p)
      => LET e == tasks[p].out.err
         IN /\ ~tasks[p].out.ok
            /\ e.url = OpUrl(tasks[p].op) /\ e.status \in {0, 401, 500}
            /\ e.detail # NoText => error = e.detail
            /\ (e.detail = NoText /\ e.message # NoText) => error = e.message
            /\ (e.detail = NoText /\ e.message = NoText)
                 => error = (IF tasks[p].op = "login" THEN "Login failed"
                             ELSE "Signup failed")

LoginFailedWithDefaultMessage ==
  \E p \in Tasks :
    /\ EntryFailed(p) /\ tasks[p].op = "login"
    /\ tasks[p].out.err.detail = NoText /\ tasks[p].out.err.message = NoText
    /\ error = "Login failed"

\* C17: fetchCurrentUser never rejects.  When its request succeeded it ends
\* with user set to the returned record and hasCredentials true, and returns
\* the record; when the request failed in any way it ends with user null and
\* hasCredentials false, and returns null.  Either way isInitialized is true
\* and isLoading false when it settles.
FetchSettled(p) == Settled(p) /\ tasks[p].op = "fetchCurrentUser"

FetchCurrentUserNeverRaises ==
  \A p \in Tasks :
    FetchSettled(p)
      => /\ tasks[p].out.ok
         /\ isInitialized /\ ~isLoading
         /\ tasks[p].apiOk =>
              /\ tasks[p].out.val \in Users
              /\ user = tasks[p].out.val /\ hasCredentials
         /\ ~tasks[p].apiOk =>
              /\ tasks[p].out.val = NoUser
              /\ user = NoUser /\ ~hasCredentials

FetchFailedOnMissingData ==
  \E p \in Tasks :
    /\ FetchSettled(p) /\ ~tasks[p].apiOk
    /\ Call(p).phase = "resolved"
    /\ user = NoUser /\ ~isLoading

\* C18: requestPasswordReset and updatePassword never change user,
\* hasCredentials or isInitialized, neither when they start nor while their
\* request is refreshed and replayed nor when they settle, with success or
\* with failure; when they fail they set error (lastError) from the failure
\* and reject with it.
PasswordOpActs(p) ==
  /\ tasks'[p].op \in PasswordOps
  /\ tasks'[p].pc \in {"net", "settled"}
  /\ [tasks'[p] EXCEPT !.superseded = FALSE] # [tasks[p] EXCEPT !.superseded = FALSE]

PasswordOpsKeepSession ==
  /\ [][\A p \in Tasks :
          PasswordOpActs(p)
            => /\ user' = user
               /\ hasCredentials' = hasCredentials
               /\ isInitialized' = isInitialized]_vars
  /\ [](\A p \in Tasks :
          (Settled(p) /\ tasks[p].op \in PasswordOps)
            => /\ tasks[p].apiOk => tasks[p].out.ok
               /\ ~tasks[p].apiOk =>
                    /\ ~tasks[p].out.ok
                    /\ tasks[p].out.err.status \in {0, 401, 500}
                    /\ error \notin {NoError, NoText}
                    /\ error \in {tasks[p].out.err.detail, tasks[p].out.err.message,
                                  "Password reset failed", "Update password failed"})

UpdatePasswordFailedSessionKept ==
  \E p \in Tasks :
    /\ Settled(p) /\ tasks[p].op = "updatePassword" /\ ~tasks[p].out.ok
    /\ Call(p).refreshed = "failed"
    /\ user \in Users /\ hasCredentials /\ error # NoError

\* C19: whenever no store operation and no page handler is in flight
\* (restoration, which never writes isLoading, aside), isLoading is false,
\* whatever operations ran before, overlapping or not, and however they
\* ended.
InFlightTask(p) == tasks[p].pc \in {"net", "settled"}

LoadingNeverStuck ==
  (\A p \in Tasks : ~InFlightTask(p)) => ~isLoading

QuietAfterFailedSignup ==
  /\ \A p \in Procs : ~InFlightTask(p)
  /\ gesturesLeft = 0
  /\ error = "Signup failed"
  /\ ~isLoading

\* C20 (as claimed): isLoading is true in every state in which a
\* session-mutating operation (restore, login, signup, logout,
\* fetchCurrentUser, requestPasswordReset, updatePassword) is in flight,
\* also when two operations overlap and one of them has finished.
OperationInFlight(p) == tasks[p].op # "none" /\ tasks[p].pc = "net"

LoadingWhileAnyOperationInFlight ==
  (\E p \in Procs : OperationInFlight(p)) => isLoading

\* C20 (amended): isLoading is false while restoration is in flight; it is
\* true when any of login, signup, logout, fetchCurrentUser,
\* requestPasswordReset and updatePassword has just started, and it turns
\* false only when one of the operations in flight settles (or in the finally
\* block of handleSignup), whether or not another one is still in flight.
OperationStarts(p) == OperationInFlight(p)' /\ tasks[p].pc # "net"

OperationSettles(p) == tasks[p].pc = "net" /\ tasks'[p].pc = "settled"

LoadingFromStartToFirstSettle ==
  /\ [](OperationInFlight(0) => ~isLoading)
  /\ [][\A p \in Tasks : OperationStarts(p) => isLoading']_vars
  /\ [][(isLoading /\ ~isLoading')
          => \E p \in Tasks :
               \/ OperationSettles(p)
               \/ tasks[p].kind = "handleSignup" /\ Settled(p)]_vars

LoadingFalseWhileSecondInFlight ==
  \E p, q \in Tasks :
    /\ OperationInFlight(p) /\ tasks[p].op = "login"
    /\ Settled(q) /\ tasks[q].op = "login"
    /\ ~isLoading

\* C21: operations are not cancelled and the last write wins.  A login,
\* signup, fetchCurrentUser or restore that is awaiting its response when a
\* logout settles stays in flight, and when its success response arrives it
\* writes its result: user is the returned record and hasCredentials is true
\* although the logout has completed.
SessionOps == {"login", "signup", "fetchCurrentUser", "restore"}

SupersededOperationStillWrites ==
  /\ [](\A p \in Procs :
          (Settled(p) /\ tasks[p].superseded
             /\ tasks[p].op \in SessionOps /\ tasks[p].apiOk)
            => /\ tasks[p].out.ok
               /\ user = tasks[p].out.val /\ hasCredentials)
  /\ [][\A q \in Tasks :
          (tasks[q].op = "logout" /\ OperationSettles(q))
            => /\ user' = NoUser /\ ~hasCredentials'
               /\ \A p \in Procs \ {q} :
                    tasks[p].pc = "net"
                      => /\ tasks'[p].pc = "net"
                         /\ tasks'[p].call = tasks[p].call
                         /\ tasks'[p].superseded]_vars

LoginWroteAfterLogout ==
  \E p \in Tasks :
    /\ Settled(p) /\ tasks[p].superseded /\ tasks[p].op = "login"
    /\ tasks[p].out.val \in Users
    /\ user = tasks[p].out.val /\ hasCredentials

\* C22 (as claimed): a state is reached in which hasCredentials is false (a
\* failed identity fetch cleared it) while a user record is still present,
\* so that isAuthenticated is true although hasCredentials is false.
StaleUser == ~hasCredentials /\ user # NoUser

Rejected ==
  /\ UNCHANGED <<tasks, user, hasCredentials, isLoading, isInitialized>>
  /\ error' \notin {NoError, NoText}

Started(p, kind, op) ==
  /\ tasks[p].pc = "idle"
  /\ tasks'[p].kind = kind /\ tasks'[p].op = op /\ tasks'[p].pc = "net"
  /\ tasks'[p].call = NewCall(OpUrl(op))

HandlerKinds == {"handleLogin", "handleSignup", "handleForgot", "handleUpdate"}

ValidationBeforeNetwork ==
  [][\A p \in Tasks :
       /\ \A e \in Emails, w \in Passwords :
            /\ SubmitLogin(p, e, w)
                 => IF e # "" /\ w # "" THEN Started(p, "handleLogin", "login")
                    ELSE Rejected
            /\ SubmitSignup(p, e, w)
                 => IF e # "" /\ w # "" THEN Started(p, "handleSignup", "signup")
                    ELSE Rejected
       /\ \A e \in Emails :
            SubmitForgot(p, e)
              => IF e # ""
                   THEN Started(p, "handleForgot", "requestPasswordReset")
                 ELSE Rejected
       /\ \A w \in Passwords, c \in Passwords :
            SubmitUpdate(p, w, c)
              => IF w # "" /\ c # "" /\ w = c /\ Len(w) >= 6
                   THEN Started(p, "handleUpdate", "updatePassword")
                 ELSE Rejected
       /\ (tasks'[p].kind \in HandlerKinds /\ tasks'[p].pc = "net"
             /\ tasks[p].pc # "net")
            => \/ \E e \in Emails \ {""}, w \in Passwords \ {""} :
                    SubmitLogin(p, e, w) \/ SubmitSignup(p, e, w)
               \/ \E e \in Emails \ {""} : SubmitForgot(p, e)
               \/ \E w \in {x \in Passwords : Len(x) >= 6} :
                    SubmitUpdate(p, w, w)]_vars

ShortPasswordRejected ==
  /\ currentRoute.name = "update-password"
  /\ error = "Password must be at least 6 characters"
  /\ \A p \in Tasks : tasks[p].pc = "idle"

HandlerCaught(p) ==
  tasks[p].kind = "handleLogout" /\ Settled(p) /\ ~tasks[p].out.ok

OutsideWritesChangeNothing ==
  [][\A p \in Tasks :
       /\ HandlerCaught(p)
            => /\ user = NoUser /\ ~hasCredentials
               /\ user' = user /\ hasCredentials' = hasCredentials
       /\ (tasks[p].kind = "guard" /\ Settled(p))
            => /\ tasks[p].out.ok
               /\ user' = user /\ hasCredentials' = hasCredentials]_vars

LogoutHandlerEnteredCatch ==
  \E p \in Tasks : HandlerCaught(p) /\ tasks[p].out.err.status = 500

\* C26: in every state in which no successful response without an identity
\* record has left user undefined, user holds a record exactly when
\* hasCredentials is true, whatever operations ran and however they
\* interleaved; and isAuthenticated equals hasCredentials in every state.
UserPresentIffCredentials ==
  /\ user # NoData => (user \in Users <=> hasCredentials)
  /\ isAuthenticated <=> hasCredentials

SessionSetWhileOtherInFlight ==
  \E p, q \in Tasks :
    /\ p # q
    /\ Settled(p) /\ tasks[p].op \in {"login", "signup"}
    /\ tasks[p].out.ok /\ tasks[p].out.val \in Users
    /\ tasks[q].pc = "net"
    /\ user \in Users /\ hasCredentials /\ isAuthenticated

\* C27: no redirect loop.  In every reachable session state, a guard
\* evaluation for any location either allows it, or awaits the identity
\* fetch, or redirects to a location that a second evaluation in the same
\* session state allows; every evaluation that has decided holds exactly one
\* decision, allow or redirect, and the target of a redirect it decided is
\* allowed in the session state of that moment.  In particular the login
\* route is never redirected to home while home is redirected to login.
NoRedirectLoop ==
  /\ \A d \in Destinations :
       GuardRules(d, Store).act = "redirect"
         => GuardRules(GuardRules(d, Store).to, Store) = Allow
  /\ \A p \in Tasks :
       GuardDecided(p)
         => /\ tasks[p].dec.act \in {"allow", "redirect"}
            /\ tasks[p].dec.act = "redirect"
                 => GuardRules(tasks[p].dec.to, Store) = Allow
  /\ ~(/\ GuardRules(Dest("login", NoQuery), Store).act = "redirect"
       /\ GuardRules(Dest("home", NoQuery), Store).act = "redirect")

LoginRedirectedToAllowedHome ==
  \E p \in Tasks :
    /\ GuardDecided(p) /\ tasks[p].to.name = "login"
    /\ tasks[p].dec = Redirect(Dest("home", NoQuery))
    /\ GuardRules(tasks[p].dec.to, Store) = Allow

\* C28: a login() or signup() call that fails writes neither user nor
\* hasCredentials: every step of its request, and the step in which it
\* settles with a failure, leaves both as they are, so a session that is
\* present when the rejected attempt settles is still present after it.
EntryOp(p) == tasks[p].op \in {"login", "signup"} /\ tasks[p].pc = "net"

FailedEntryKeepsSession ==
  [][\A p \in Tasks :
       /\ (EntryOp(p) /\ tasks'[p].pc = "settled" /\ ~tasks'[p].out.ok)
            => user' = user /\ hasCredentials' = hasCredentials
       /\ (EntryOp(p) /\ tasks'[p].pc = "net" /\ tasks'[p].call # tasks[p].call)
            => user' = user /\ hasCredentials' = hasCredentials]_vars

RejectedLoginWhileAuthenticated ==
  \E p \in Tasks :
    /\ Settled(p) /\ tasks[p].op = "login" /\ ~tasks[p].out.ok
    /\ user \in Users /\ hasCredentials

\* C29: every logout() call has dispatched auth:logout exactly once when it
\* settles, whether the remote call succeeded or failed.  The code does not
\* keep to this: when the remote call fails, the client's finally block
\* dispatches the event and the store's catch branch dispatches it again.
LogoutSignalsExactlyOnce ==
  \A p \in Tasks :
    (Settled(p) /\ tasks[p].op = "logout") => tasks[p].sig = 1

LogoutFailedSignalledTwice ==
  \E p \in Tasks :
    /\ Settled(p) /\ tasks[p].op = "logout"
    /\ ~tasks[p].apiOk /\ ~tasks[p].out.ok
    /\ tasks[p].sig = 2

\* C30: whenever a store operation settles after the HTTP client dispatched
\* auth:logout for a failed credential refresh of its request, user is null
\* and hasCredentials is false.  The code does not keep to this for
\* requestPasswordReset and updatePassword: they record the error and
\* re-raise, and the session stays as it was.
RefreshFailureEndsSession ==
  \A p \in Procs :
    (Settled(p) /\ Call(p).refreshed = "failed" /\ Call(p).nSignal = 1)
      => user = NoUser /\ ~hasCredentials

ResetRequestRefreshFailedSessionKept ==
  \E p \in Tasks :
    /\ Settled(p) /\ tasks[p].op = "requestPasswordReset"
    /\ Call(p).refreshed = "failed" /\ Call(p).nSignal = 1
    /\ user \in Users /\ hasCredentials /\ isAuthenticated

\* C31: restoration goes through the refresh path.  A 401 answer to the
\* first identity fetch of restoration starts a refresh; when the refresh
\* succeeded and the replayed fetch returned a record, restoration settles
\* with user set to that record and hasCredentials true, no auth:logout
\* dispatched; when the refresh failed, it settles with user null and
\* hasCredentials false and auth:logout dispatched once; and a restoration
\* that is refreshing always comes to its end.
Restoring == tasks[0].op = "restore" /\ tasks[0].pc = "net"

RestoreSettledAfter(how) ==
  Settled(0) /\ tasks[0].op = "restore" /\ Call(0).refreshed = how

RestorationTakesRefreshPath ==
  /\ []((Restoring /\ Call(0).phase = "sent")
          => \A r \in ResponsesFor("restore") :
               r.status = 401 => OnResponse(Call(0), r).phase = "refreshing")
  /\ []((RestoreSettledAfter("ok") /\ tasks[0].apiOk)
          => /\ user \in Users /\ user = tasks[0].out.val
             /\ hasCredentials /\ isInitialized
             /\ tasks[0].sig = 0)
  /\ [](RestoreSettledAfter("failed")
          => /\ user = NoUser /\ ~hasCredentials /\ isInitialized
             /\ tasks[0].sig = 1)
  /\ (Restoring /\ Call(0).phase = "refreshing") ~> (tasks[0].pc = "done")

RestoredThroughRefresh ==
  /\ RestoreSettledAfter("ok") /\ tasks[0].apiOk
  /\ Call(0).nRefresh = 1 /\ Call(0).nReplay = 1
  /\ user \in Users /\ hasCredentials

====
